---- MODULE Spec2Model ----
(***************************************************************************)
(* Kryptobot (src/kryptobot.py): the trading worker thread (trading_loop), *)
(* the curses status renderer (ui_loop) and main, as one state machine.    *)
(*                                                                         *)
(* Units.  Money, prices and volumes are integers; one volume unit stands  *)
(* for the 8th decimal place round(volume, 8) keeps, so rounding to 8      *)
(* decimals is rounding to an integer.  Time is counted in half seconds,   *)
(* so that the 2.5 s pacing delay is the integer 5.                        *)
(*                                                                         *)
(* Atomicity.  One action is one access to state shared between threads or *)
(* with the exchange (a lock region, a read or write of exit_flag, one     *)
(* network call, one e-mail) together with the thread-local computation    *)
(* that follows it.                                                        *)
(***************************************************************************)
EXTENDS Integers, Sequences, FiniteSets, TLC

VARIABLES
    exit_flag,          \* global exit_flag
    logs,               \* global logs (guarded by log_lock)
    latest_funds,       \* global latest_funds    (guarded by dashboard_data_lock)
    latest_holdings,    \* global latest_holdings (guarded by dashboard_data_lock)
    mpc,                \* main: position
    upc,                \* ui_loop: position
    funds,              \* ui_loop: local funds
    holdings_list,      \* ui_loop: local holdings_list
    displayable_logs,   \* ui_loop: local displayable_logs
    scroll_offset,      \* ui_loop: local scroll_offset
    wpc,                \* trading_loop: position
    elapsed,            \* sleep_with_exit: local elapsed
    total_seconds,      \* sleep_with_exit: parameter total_seconds
    sleep_ret,          \* sleep_with_exit: where the caller continues
    first_order,        \* the first order of this iteration of the while loop
    watchlist,          \* trading_loop: local watchlist
    gab_caller,         \* get_account_balances: who called it
    gab_balance,        \* get_account_balances: local balance
    gab_tradable,       \* get_account_balances: local balance_tradable
    balance_tradable,   \* trading_loop: local balance_tradable
    buying_power,       \* trading_loop: local buying_power
    formatted_holdings, \* trading_loop: local formatted_holdings
    total_allocated,    \* trading_loop: local total_allocated
    trades,             \* trading_loop: local trades
    idx,                \* position of the for loop in watchlist
    logged,             \* position of the summary loop in trades
    ohlc,               \* the values read from the pair's OHLC frame
    volume,             \* trading_loop: local volume
    stop_loss,          \* trading_loop: local stop_loss
    action,             \* place_order: parameter action
    order_id,           \* place_order: local order_id (index into orders)
    is_filled,          \* place_order: local is_filled
    orders,             \* the exchange's view: every AddOrder call and what became of it
    notifications       \* e-mails sent so far

sharedVars == <<exit_flag, logs, latest_funds, latest_holdings>>
uiVars     == <<mpc, upc, funds, holdings_list, displayable_logs, scroll_offset>>
sleepVars  == <<elapsed, total_seconds, sleep_ret>>
cycleVars  == <<first_order, watchlist, gab_caller, gab_balance, gab_tradable, balance_tradable,
                buying_power, formatted_holdings, total_allocated, trades, idx, logged>>
flagVars   == <<exit_flag, latest_funds, latest_holdings>>
loopVars   == <<first_order, watchlist>>
gabVars    == <<gab_caller, gab_balance, gab_tradable>>
acctVars   == <<balance_tradable, buying_power, formatted_holdings>>
iterVars   == <<total_allocated, trades, idx, logged>>
pairVars   == <<ohlc, volume, stop_loss, action, order_id, is_filled>>
envVars    == <<orders, notifications>>
vars       == <<sharedVars, uiVars, wpc, sleepVars, cycleVars, pairVars, envVars>>

----------------------------------------------------------------------------
(* Bounds of the model *)

MaxLogs   == 9      \* lines the log buffer takes: add_log waits when it is full
MaxOrders == 2      \* AddOrder calls the worker may issue in one run
LogWindow == 8      \* bottom_height - 2: log lines the terminal shows

\* The long sleeps, cut short: the model follows sleep_with_exit(60) and
\* sleep_with_exit(300) for 3 and 4 turns of its loop instead of 60 and 300.
CooldownSleep == 6
CycleSleep    == 8

(* Program constants (time in half seconds) *)

CheckInterval == 2      \* sleep_with_exit(check_interval=1)
PacingSleep   == 5      \* sleep_with_exit(2.5)

----------------------------------------------------------------------------
(* Pair and asset codes are character sequences, so that pair[:4] is a slice *)

XXBTZUSD == <<"X", "X", "B", "T", "Z", "U", "S", "D">>
BCHUSD   == <<"B", "C", "H", "U", "S", "D">>
XXBT     == <<"X", "X", "B", "T">>
BCH      == <<"B", "C", "H">>
ZUSD     == <<"Z", "U", "S", "D">>

Min(a, b) == IF a < b THEN a ELSE b
Max(a, b) == IF a > b THEN a ELSE b

\* watchlist.txt as read_watchlist can find it: missing or empty, or two pairs
Watchlists == { <<>>, <<BCHUSD, XXBTZUSD>> }

\* A balance frame is the sequence of its rows <<asset, vol>>; the empty frame has
\* no rows and no columns.  The asset codes are the exchange's (upper case, no
\* blanks), on which the folding of get_buying_power changes nothing.
TotalFrames    == { << <<ZUSD, 2000>>, <<XXBT, 2>>, <<BCH, 2>> >> }
TradableFrames == { << <<ZUSD, 2000>>, <<XXBT, 2>>, <<BCH, 2>> >> }

Index(frame)      == { frame[i][1] : i \in DOMAIN frame }
HasVol(frame)     == frame # <<>>
Vol(frame, asset) == frame[CHOOSE i \in DOMAIN frame : frame[i][1] = asset][2]

\* What get_ohlc_data can return, reduced to the values trading_loop reads from it
\* (previous close 100 throughout).  raises: the indicator library throws on it.
Bar(close, rsi, atr, short_sma, raises) ==
    [close |-> close, prev |-> 100, rsi |-> rsi, atr |-> atr,
     short_sma |-> short_sma, long_sma |-> 100, raises |-> raises]

Markets ==
    { Bar(80, 25, 5, 110, FALSE),    \* oversold dip in an uptrend
      Bar(40, 25, 1, 110, FALSE),    \* the same with a small ATR: the allocation cap binds
      Bar(80, 25, 5, 90, FALSE),     \* the dip in a downtrend
      Bar(80, 25, 0, 110, FALSE),    \* zero ATR: stop_loss = current_price
      Bar(100, 75, 5, 110, FALSE),   \* overbought
      Bar(100, 50, 5, 110, FALSE),   \* nothing to do
      Bar(130, 50, 1, 110, FALSE),   \* above the profit threshold
      Bar(0, 50, 5, 110, FALSE),     \* last close 0.0
      Bar(0 - 1, 50, 5, 110, FALSE), \* a negative price
      Bar(100, 50, 5, 110, TRUE) }   \* a frame the indicator library throws on

NoOhlc == Bar(0, 0, 0, 0, FALSE)

\* the 'lot' column of get_tradable_asset_pairs: the exchange's minimum order size
MinOrderSize(pair) == IF pair = XXBTZUSD THEN 3 ELSE 2

----------------------------------------------------------------------------
(* add_log, lines 83-88: the append happens under log_lock.  Of the timestamped
   line the model keeps the thread that wrote it and its place in time. *)

\* bug: the buffer is kept short by dropping its oldest line
AddLogTrimming(by, message) ==
    /\ Len(logs) < MaxLogs
    /\ logs' = IF Len(logs) >= 2
               THEN Tail(Append(logs, [by |-> by, at |-> Len(logs) + 1]))
               ELSE Append(logs, [by |-> by, at |-> Len(logs) + 1])

AddLog(by, message) ==
    /\ Len(logs) < MaxLogs
    /\ logs' = Append(logs, [by |-> by, at |-> Len(logs) + 1])

----------------------------------------------------------------------------
(* Pure computations of trading_loop *)

\* round(x, 8) of x = n / d with d > 0: Python rounds half to even
Round(n, d) ==
    LET q == n \div d
        r == n % d
    IN  IF 2 * r < d THEN q
        ELSE IF 2 * r > d THEN q + 1
        ELSE IF q % 2 = 0 THEN q ELSE q + 1

\* line 411: 0 < current_price < 1e10 (every price of the model is far below 1e10)
ValidPrice(current_price) == 0 < current_price

\* lines 422-424, each comparison multiplied through by 100:
\*   previous_close * (1 - 0.15 - atr / previous_close) = 0.85 * previous_close - atr
AtOrBelowBuyThreshold(o)   == 100 * o.close <= 85 * o.prev - 100 * o.atr
AtOrBelowSellLoss(o)       == 100 * o.close <= 93 * o.prev - 100 * o.atr
AtOrAboveSellProfit(o)     == 100 * o.close >= 125 * o.prev + 100 * o.atr

\* line 427
IsUptrend(o) == o.short_sma > o.long_sma

\* bug: the trend filter is left out of the buy test
BuySignalIgnoringTrend(o) == o.rsi < 30 /\ AtOrBelowBuyThreshold(o)

\* line 430
BuySignal(o) == o.rsi < 30 /\ AtOrBelowBuyThreshold(o) /\ IsUptrend(o)

\* line 433
StopLoss(o) == o.close - 2 * o.atr

\* lines 432-439: risk_per_trade = buying_power / 100,
\*   position_size = risk_per_trade / (current_price - stop_loss)
\*   cap           = (buying_power * 0.20 - total_allocated) / current_price
\* as fractions over 100 * (current_price - stop_loss) and 100 * current_price
SizeVolume(bp, current_price, sl, allocated) ==
    LET pn == bp
        pd == 100 * (current_price - sl)
        cn == 20 * bp - 100 * allocated
        cd == 100 * current_price
    IN  IF cn * pd < pn * cd THEN Round(cn, cd) ELSE Round(pn, pd)

\* line 450: pair[:4]
AssetCode(pair) == SubSeq(pair, 1, Min(4, Len(pair)))

\* line 451
TradableVol(frame, pair) ==
    IF AssetCode(pair) \in Index(frame) /\ HasVol(frame)
    THEN Vol(frame, AssetCode(pair)) ELSE 0

\* line 452
SellSignal(o, tradable_vol) ==
    /\ tradable_vol > 0
    /\ (o.rsi > 70 \/ AtOrBelowSellLoss(o) \/ AtOrAboveSellProfit(o))

\* get_buying_power, lines 157-175
GetBuyingPower(bal, bal_tradable) ==
    IF ZUSD \in Index(bal_tradable) /\ HasVol(bal_tradable) THEN Vol(bal_tradable, ZUSD)
    ELSE IF ZUSD \in Index(bal) /\ HasVol(bal) THEN Vol(bal, ZUSD)
    ELSE 0

\* track_holdings, lines 252-257, and format_holdings, lines 289-295: one line
\* <<asset, total, tradable>> per asset held
RECURSIVE FormatRows(_, _)
FormatRows(bal, bal_tradable) ==
    IF bal = <<>> THEN <<>>
    ELSE LET asset == Head(bal)[1]
             total == Head(bal)[2]
             tradable == IF asset \in Index(bal_tradable) /\ HasVol(bal_tradable)
                         THEN Vol(bal_tradable, asset) ELSE 0
         IN  (IF total > 0 THEN << <<asset, total, tradable>> >> ELSE <<>>)
             \o FormatRows(Tail(bal), bal_tradable)

FormatHoldings(bal, bal_tradable) ==
    IF FormatRows(bal, bal_tradable) # <<>>
    THEN FormatRows(bal, bal_tradable) ELSE << "No Holdings" >>

\* ui_loop line 337: logs[max(0, len(logs) - (bottom_height - 2 + scroll_offset))
\*                        : len(logs) - scroll_offset]
LogSlice(buffer, offset) ==
    SubSeq(buffer, Max(0, Len(buffer) - (LogWindow + offset)) + 1, Len(buffer) - offset)

----------------------------------------------------------------------------
Init ==
    /\ exit_flag = FALSE
    /\ logs = <<>>
    /\ latest_funds = 0
    /\ latest_holdings = <<>>
    /\ mpc = "start"
    /\ upc = "idle"
    /\ funds = 0
    /\ holdings_list = <<>>
    /\ displayable_logs = <<>>
    /\ scroll_offset = 0
    /\ wpc = "idle"
    /\ elapsed = 0
    /\ total_seconds = 0
    /\ sleep_ret = "none"
    /\ first_order = 1
    /\ watchlist = <<>>
    /\ gab_caller = "none"
    /\ gab_balance = <<>>
    /\ gab_tradable = <<>>
    /\ balance_tradable = <<>>
    /\ buying_power = 0
    /\ formatted_holdings = <<>>
    /\ total_allocated = 0
    /\ trades = <<>>
    /\ idx = 0
    /\ logged = 0
    /\ ohlc = NoOhlc
    /\ volume = 0
    /\ stop_loss = 0
    /\ action = "none"
    /\ order_id = 0
    /\ is_filled = FALSE
    /\ orders = <<>>
    /\ notifications = 0

----------------------------------------------------------------------------
(* main, lines 478-487 *)

\* lines 480-484: start the daemon thread, enter curses.wrapper(ui_loop)
MainStart ==
    /\ mpc = "start"
    /\ mpc' = "ui"
    /\ upc' = "draw_top"
    /\ wpc' = "loop"
    /\ UNCHANGED <<sharedVars, funds, holdings_list, displayable_logs, scroll_offset,
                   sleepVars, cycleVars, pairVars, envVars>>

\* line 486, after ui_loop has returned
MainSetExit ==
    /\ mpc = "ui" /\ upc = "returned"
    /\ exit_flag' = TRUE
    /\ mpc' = "join"
    /\ UNCHANGED <<logs, latest_funds, latest_holdings, upc, funds, holdings_list,
                   displayable_logs, scroll_offset, wpc, sleepVars, cycleVars,
                   pairVars, envVars>>

\* line 487: join returns once trading_loop has returned; main returns
MainJoin ==
    /\ mpc = "join" /\ wpc = "done"
    /\ mpc' = "exited"
    /\ UNCHANGED <<sharedVars, upc, funds, holdings_list, displayable_logs, scroll_offset,
                   wpc, sleepVars, cycleVars, pairVars, envVars>>

\* line 484: an exception of ui_loop leaves curses.wrapper and main; lines 486-487
\* are skipped and the interpreter exits, ending the daemon thread where it is
MainUiRaised ==
    /\ mpc = "ui" /\ upc = "raised"
    /\ mpc' = "exited"
    /\ UNCHANGED <<sharedVars, upc, funds, holdings_list, displayable_logs, scroll_offset,
                   wpc, sleepVars, cycleVars, pairVars, envVars>>

ProcessAlive == mpc # "exited"

----------------------------------------------------------------------------
(* ui_loop, lines 320-360 *)

\* lines 320-332: the copy under dashboard_data_lock, then the drawing.  Line 320
\* finds exit_flag unset: while ui_loop runs, nobody but ui_loop sets it (line 356),
\* and that step leaves the loop.
UiDrawTop ==
    /\ ProcessAlive /\ upc = "draw_top"
    /\ funds' = latest_funds
    /\ holdings_list' = latest_holdings
    /\ displayable_logs' = <<>>
    /\ upc' = "draw_logs"
    /\ UNCHANGED <<sharedVars, mpc, scroll_offset,
                   wpc, sleepVars, cycleVars, pairVars, envVars>>

\* lines 323-332: addstr outside any try raises curses.error when the text does not
\* fit the window; Ctrl-C raises KeyboardInterrupt
UiRaise ==
    /\ ProcessAlive /\ upc = "draw_logs"
    /\ upc' = "raised"
    /\ UNCHANGED <<sharedVars, mpc, funds, holdings_list, displayable_logs, scroll_offset,
                   wpc, sleepVars, cycleVars, pairVars, envVars>>

\* lines 334-345: the copy under log_lock, then the drawing
UiDrawLogs ==
    /\ ProcessAlive /\ upc = "draw_logs"
    /\ displayable_logs' = LogSlice(logs, scroll_offset)
    /\ funds' = 0
    /\ holdings_list' = <<>>
    /\ upc' = "getch"
    /\ UNCHANGED <<sharedVars, mpc, scroll_offset,
                   wpc, sleepVars, cycleVars, pairVars, envVars>>

\* lines 348-353 and 360: no key, KEY_UP or KEY_DOWN, then time.sleep(0.5)
UiKey ==
    /\ ProcessAlive /\ upc = "getch"
    /\ \E key \in {"none", "KEY_UP", "KEY_DOWN"} :
         scroll_offset' =
            IF key = "KEY_UP"
            THEN (IF scroll_offset < Max(0, Len(logs) - LogWindow)
                  THEN scroll_offset + 1 ELSE scroll_offset)
            ELSE IF key = "KEY_DOWN" THEN Max(0, scroll_offset - 1)
            ELSE scroll_offset
    /\ displayable_logs' = <<>>
    /\ upc' = "draw_top"
    /\ UNCHANGED <<sharedVars, mpc, funds, holdings_list,
                   wpc, sleepVars, cycleVars, pairVars, envVars>>

\* lines 354-356 and 360: 'q' pressed; add_log, then exit_flag, and line 320 ends
\* the loop: ui_loop returns
UiQuit ==
    /\ ProcessAlive /\ upc = "getch"
    /\ AddLog("ui", "Q key pressed. Shutting down.")
    /\ exit_flag' = TRUE
    /\ displayable_logs' = <<>>
    /\ upc' = "returned"
    /\ UNCHANGED <<latest_funds, latest_holdings, mpc, funds, holdings_list,
                   scroll_offset, wpc, sleepVars, cycleVars, pairVars, envVars>>

----------------------------------------------------------------------------
(* sleep_with_exit, lines 74-80 *)

\* the call: elapsed = 0
Sleep(total, ret) ==
    /\ wpc' = "sleep"
    /\ elapsed' = 0
    /\ total_seconds' = total
    /\ sleep_ret' = ret

\* bug: the loop of sleep_with_exit does not look at exit_flag
SleepContinuesIgnoringFlag == elapsed < total_seconds

\* lines 78-80: one test of the loop condition, and one time.sleep if it holds
SleepContinues == elapsed < total_seconds /\ ~exit_flag

SleepWithExit ==
    /\ ProcessAlive /\ wpc = "sleep"
    /\ IF SleepContinues
       THEN /\ elapsed' = elapsed + CheckInterval
            /\ UNCHANGED <<wpc, total_seconds, sleep_ret>>
       ELSE /\ wpc' = sleep_ret
            /\ elapsed' = 0
            /\ total_seconds' = 0
            /\ sleep_ret' = "none"
    /\ UNCHANGED <<sharedVars, uiVars, cycleVars, pairVars, envVars>>

\* sleep_with_exit(300) closes an iteration of the while loop (lines 371, 387, 472):
\* what the iteration leaves in its locals is not read again
EndIteration ==
    /\ Sleep(CycleSleep, "loop")
    /\ watchlist' = <<>>
    /\ balance_tradable' = <<>>
    /\ buying_power' = 0
    /\ formatted_holdings' = <<>>
    /\ total_allocated' = 0
    /\ trades' = <<>>
    /\ idx' = 0
    /\ logged' = 0
    /\ first_order' = Len(orders) + 1

----------------------------------------------------------------------------
(* trading_loop, lines 363-475: the head of a cycle *)

\* bug: the loop does not end on exit_flag, it idles at its head
WhileNotExitIdles ==
    /\ ProcessAlive /\ wpc = "loop"
    /\ wpc' = IF exit_flag THEN "loop" ELSE "read_watchlist"
    /\ UNCHANGED <<sharedVars, uiVars, sleepVars, cycleVars, pairVars, envVars>>

\* line 367: while not exit_flag
WhileNotExit ==
    /\ ProcessAlive /\ wpc = "loop"
    /\ wpc' = IF exit_flag THEN "terminate" ELSE "read_watchlist"
    /\ UNCHANGED <<sharedVars, uiVars, sleepVars, cycleVars, pairVars, envVars>>

\* lines 474-475, and the return of trading_loop
Terminate ==
    /\ ProcessAlive /\ wpc = "terminate"
    /\ AddLog("worker", "Script terminated gracefully.")
    /\ wpc' = "done"
    /\ UNCHANGED <<flagVars, uiVars, sleepVars, cycleVars, pairVars, envVars>>

\* line 368, read_watchlist lines 276-286; lines 369-374
ReadWatchlist ==
    /\ ProcessAlive /\ wpc = "read_watchlist"
    /\ \E wl \in Watchlists :
         /\ watchlist' = wl
         /\ AddLog("worker", "Loaded watchlist")
         /\ IF wl = <<>>
            THEN /\ wpc' = "log_empty"
                 /\ UNCHANGED <<sleepVars, gab_caller>>
            ELSE /\ gab_caller' = "trading_loop"
                 /\ Sleep(PacingSleep, "get_account_balance")
    /\ UNCHANGED <<flagVars, uiVars, first_order, gab_balance, gab_tradable, acctVars, iterVars,
                   pairVars, envVars>>

\* lines 370-372
LogEmptyWatchlist ==
    /\ ProcessAlive /\ wpc = "log_empty"
    /\ AddLog("worker", "Watchlist is empty. Sleeping for 5 minutes.")
    /\ EndIteration
    /\ UNCHANGED <<flagVars, uiVars, gabVars, pairVars, envVars>>

----------------------------------------------------------------------------
(* get_account_balances, lines 144-155 *)

\* where get_account_balances returns to
GabReturn == IF gab_caller = "trading_loop" THEN "log_buying_power" ELSE "log_holdings"

\* line 147: the call fails (both frames empty, line 155) or returns a frame
GetAccountBalance ==
    /\ ProcessAlive /\ wpc = "get_account_balance"
    /\ \/ /\ gab_balance' = <<>>
          /\ gab_tradable' = <<>>
          /\ wpc' = GabReturn
          /\ UNCHANGED sleepVars
       \/ \E frame \in TotalFrames :
             /\ gab_balance' = frame
             /\ gab_tradable' = <<>>
             /\ Sleep(PacingSleep, "get_trade_balance")
    /\ UNCHANGED <<sharedVars, uiVars, loopVars, gab_caller, acctVars, iterVars, pairVars,
                   orders, notifications>>

\* line 149
GetTradeBalance ==
    /\ ProcessAlive /\ wpc = "get_trade_balance"
    /\ \/ /\ gab_balance' = <<>>
          /\ gab_tradable' = <<>>
       \/ \E frame \in TradableFrames :
             /\ gab_tradable' = frame
             /\ UNCHANGED gab_balance
    /\ wpc' = GabReturn
    /\ UNCHANGED <<sharedVars, uiVars, sleepVars, loopVars, gab_caller, acctVars, iterVars,
                   pairVars, envVars>>

----------------------------------------------------------------------------
(* trading_loop, lines 374-391 *)

\* lines 374-377: buying power, its log line, and the call of track_holdings
LogBuyingPower ==
    /\ ProcessAlive /\ wpc = "log_buying_power"
    /\ buying_power' = GetBuyingPower(gab_balance, gab_tradable)
    /\ balance_tradable' = gab_tradable
    /\ AddLog("worker", "Available buying power")
    /\ gab_caller' = "track_holdings"
    /\ gab_balance' = <<>>
    /\ gab_tradable' = <<>>
    /\ Sleep(PacingSleep, "get_account_balance")
    /\ UNCHANGED <<flagVars, uiVars, loopVars, formatted_holdings, iterVars, pairVars,
                   envVars>>

\* track_holdings lines 249-260, lines 378-379
LogHoldings ==
    /\ ProcessAlive /\ wpc = "log_holdings"
    /\ formatted_holdings' = FormatHoldings(gab_balance, gab_tradable)
    /\ AddLog("worker", "Current Holdings")
    /\ gab_caller' = "none"
    /\ gab_balance' = <<>>
    /\ gab_tradable' = <<>>
    /\ wpc' = "publish"
    /\ UNCHANGED <<flagVars, uiVars, sleepVars, loopVars, balance_tradable, buying_power,
                   iterVars, pairVars, envVars>>

\* bug: only latest_funds is published
PublishFundsOnly ==
    /\ ProcessAlive /\ wpc = "publish"
    /\ latest_funds' = buying_power
    /\ wpc' = "check_buying_power"
    /\ UNCHANGED <<exit_flag, logs, latest_holdings, uiVars, sleepVars, cycleVars,
                   pairVars, envVars>>

\* lines 381-383: both writes under dashboard_data_lock
Publish ==
    /\ ProcessAlive /\ wpc = "publish"
    /\ latest_funds' = buying_power
    /\ latest_holdings' = formatted_holdings
    /\ wpc' = "check_buying_power"
    /\ UNCHANGED <<exit_flag, logs, uiVars, sleepVars, cycleVars, pairVars, envVars>>

\* bug: only a negative buying power ends the cycle early
NoBuyingPowerNegativeOnly(bp) == bp < 0

\* line 385
NoBuyingPower(bp) == bp <= 0

\* lines 385-391
CheckBuyingPower ==
    /\ ProcessAlive /\ wpc = "check_buying_power"
    /\ IF NoBuyingPower(buying_power)
       THEN /\ AddLog("worker", "No available buying power. Please fund your account.")
            /\ EndIteration
       ELSE /\ total_allocated' = 0
            /\ trades' = <<>>
            /\ idx' = 1
            /\ logged' = 0
            /\ wpc' = "for_pair"
            /\ UNCHANGED <<logs, sleepVars, loopVars, acctVars>>
    /\ UNCHANGED <<flagVars, uiVars, gabVars, pairVars, envVars>>

----------------------------------------------------------------------------
(* trading_loop, lines 393-456: one pair *)

\* continue, or the end of the loop body: the next pair
NextPair ==
    /\ idx' = idx + 1
    /\ wpc' = "for_pair"
    /\ ohlc' = NoOhlc
    /\ volume' = 0
    /\ stop_loss' = 0
    /\ action' = "none"
    /\ order_id' = 0
    /\ is_filled' = FALSE

\* lines 393-395: the for statement and the test of exit_flag
ForPair ==
    /\ ProcessAlive /\ wpc = "for_pair"
    /\ wpc' = IF idx > Len(watchlist) \/ exit_flag THEN "summary" ELSE "log_checking"
    /\ UNCHANGED <<sharedVars, uiVars, sleepVars, cycleVars, pairVars, envVars>>

\* lines 397-399
LogChecking ==
    /\ ProcessAlive /\ wpc = "log_checking"
    /\ AddLog("worker", "Checking")
    /\ Sleep(PacingSleep, "get_ohlc_data")
    /\ UNCHANGED <<flagVars, uiVars, cycleVars, pairVars, envVars>>

\* lines 400-413: the call fails or returns an unusable frame (lines 403-404), or
\* it returns prices, which line 411 validates
GetOhlcData ==
    /\ ProcessAlive /\ wpc = "get_ohlc_data"
    /\ \/ wpc' = "log_skipping" /\ ohlc' = ohlc
       \/ \E frame \in Markets :
             IF frame.close = 0 THEN wpc' = "log_skipping" /\ ohlc' = ohlc
             ELSE IF ~ValidPrice(frame.close) THEN wpc' = "log_invalid_price" /\ ohlc' = ohlc
             ELSE wpc' = "evaluate" /\ ohlc' = frame
    /\ UNCHANGED <<sharedVars, uiVars, sleepVars, cycleVars, volume, stop_loss, action,
                   order_id, is_filled, envVars>>

\* lines 407-409
LogSkipping ==
    /\ ProcessAlive /\ wpc = "log_skipping"
    /\ AddLog("worker", "Skipping")
    /\ NextPair
    /\ UNCHANGED <<flagVars, uiVars, sleepVars, loopVars, gabVars, acctVars,
                   total_allocated, trades, logged, envVars>>

\* lines 411-413
LogInvalidPrice ==
    /\ ProcessAlive /\ wpc = "log_invalid_price"
    /\ AddLog("worker", "Invalid price")
    /\ NextPair
    /\ UNCHANGED <<flagVars, uiVars, sleepVars, loopVars, gabVars, acctVars,
                   total_allocated, trades, logged, envVars>>

\* lines 416-440: the indicators (outside any try: what they raise leaves the while
\* loop), the buy test, the stop-loss test and the sizing
Evaluate ==
    /\ ProcessAlive /\ wpc = "evaluate"
    /\ IF ohlc.raises
       THEN /\ wpc' = "handle_exceptions"
            /\ UNCHANGED <<sleepVars, volume, stop_loss>>
       ELSE IF ~BuySignal(ohlc)
       THEN /\ wpc' = "sell_check"
            /\ UNCHANGED <<sleepVars, volume, stop_loss>>
       ELSE IF StopLoss(ohlc) >= ohlc.close
       THEN /\ stop_loss' = StopLoss(ohlc)
            /\ wpc' = "log_invalid_stop"
            /\ UNCHANGED <<sleepVars, volume>>
       ELSE /\ stop_loss' = StopLoss(ohlc)
            /\ volume' = SizeVolume(buying_power, ohlc.close, StopLoss(ohlc),
                                    total_allocated)
            /\ Sleep(PacingSleep, "get_min_order_size")
    /\ UNCHANGED <<sharedVars, uiVars, cycleVars, ohlc, action, order_id, is_filled,
                   envVars>>

\* lines 434-436
LogInvalidStop ==
    /\ ProcessAlive /\ wpc = "log_invalid_stop"
    /\ AddLog("worker", "Invalid stop-loss")
    /\ NextPair
    /\ UNCHANGED <<flagVars, uiVars, sleepVars, loopVars, gabVars, acctVars,
                   total_allocated, trades, logged, envVars>>

\* line 441
BelowMinOrder(vol, min_order) == vol < min_order

\* get_min_order_size lines 179-187 (0.0 when the call fails), lines 440-444
GetMinOrderSize ==
    /\ ProcessAlive /\ wpc = "get_min_order_size"
    /\ \E min_order \in {0, MinOrderSize(watchlist[idx])} :
         IF BelowMinOrder(volume, min_order)
         THEN wpc' = "log_below_min" /\ action' = action
         ELSE wpc' = "add_order" /\ action' = "buy"
    /\ UNCHANGED <<sharedVars, uiVars, sleepVars, cycleVars, ohlc, volume, stop_loss,
                   order_id, is_filled, envVars>>

\* lines 441-443
LogBelowMin ==
    /\ ProcessAlive /\ wpc = "log_below_min"
    /\ AddLog("worker", "Volume below min order")
    /\ NextPair
    /\ UNCHANGED <<flagVars, uiVars, sleepVars, loopVars, gabVars, acctVars,
                   total_allocated, trades, logged, envVars>>

\* line 452
SellFires == SellSignal(ohlc, TradableVol(balance_tradable, watchlist[idx]))

\* lines 450-454
SellCheck ==
    /\ ProcessAlive /\ wpc = "sell_check"
    /\ IF SellFires
       THEN /\ volume' = TradableVol(balance_tradable, watchlist[idx])
            /\ action' = "sell"
            /\ order_id' = 0
            /\ is_filled' = FALSE
            /\ wpc' = "add_order"
            /\ UNCHANGED <<ohlc, stop_loss, idx>>
       ELSE NextPair
    /\ UNCHANGED <<sharedVars, uiVars, sleepVars, loopVars, gabVars, acctVars,
                   total_allocated, trades, logged, envVars>>

----------------------------------------------------------------------------
(* place_order, lines 189-231, and check_order_filled, lines 233-247 *)

Order(pair, side, vol, price, status) ==
    [pair |-> pair, side |-> side, volume |-> vol, price |-> price,
     status |-> status, queries |-> 0, notified |-> 0]

\* what the AddOrder call can come back with
AddOrderOutcomes == {"txid", "error", "no_txid", "raises"}

\* lines 199-206 and 222-226: the order is with the exchange (Submitted) when a txid
\* comes back; an error, a missing txid or an exception fail the submission
AddOrder ==
    /\ ProcessAlive /\ wpc = "add_order"
    /\ Len(orders) < MaxOrders
    /\ \E outcome \in AddOrderOutcomes :
         /\ orders' = Append(orders,
                Order(watchlist[idx], action, volume, ohlc.close,
                      IF outcome = "txid" THEN "Submitted" ELSE "Failed"))
         /\ order_id' = IF outcome = "txid" THEN Len(orders) + 1 ELSE 0
         /\ wpc' = CASE outcome = "txid" -> "notify_placed"
                     [] outcome = "raises" -> "notify_failed"
                     [] OTHER -> "after_order"
    /\ is_filled' = FALSE
    /\ UNCHANGED <<sharedVars, uiVars, sleepVars, cycleVars, ohlc, volume, stop_loss,
                   action, notifications>>

\* send_email_notification: one more e-mail, about the order last submitted
Notify(ords) ==
    [ords EXCEPT ![Len(ords)].notified = @ + 1]

\* lines 207-213, and the sleep that opens check_order_filled (line 235)
NotifyPlaced ==
    /\ ProcessAlive /\ wpc = "notify_placed"
    /\ notifications' = notifications + 1
    /\ orders' = Notify(orders)
    /\ Sleep(PacingSleep, "query_orders")
    /\ UNCHANGED <<sharedVars, uiVars, cycleVars, pairVars>>

\* lines 225-231
NotifyFailed ==
    /\ ProcessAlive /\ wpc = "notify_failed"
    /\ notifications' = notifications + 1
    /\ orders' = Notify(orders)
    /\ wpc' = "after_order"
    /\ UNCHANGED <<sharedVars, uiVars, sleepVars, cycleVars, pairVars>>

\* what the QueryOrders call can come back with
QueryOutcomes == {"closed", "open", "error", "raises"}

\* line 242, and lines 237-239 and 245-247
Filled(outcome) == outcome = "closed"

\* bug: place_order returns without waiting for the answer to the status query,
\* and the order stays Submitted
QueryOrdersDeferred ==
    /\ ProcessAlive /\ wpc = "query_orders"
    /\ is_filled' = FALSE
    /\ wpc' = "log_filled"
    /\ UNCHANGED <<sharedVars, uiVars, sleepVars, cycleVars, ohlc, volume, stop_loss,
                   action, order_id, envVars>>

\* lines 236-247
QueryOrders ==
    /\ ProcessAlive /\ wpc = "query_orders"
    /\ \E outcome \in QueryOutcomes :
         /\ is_filled' = Filled(outcome)
         /\ orders' = [orders EXCEPT
                          ![order_id].queries = @ + 1,
                          ![order_id].status =
                              IF Filled(outcome) THEN "Filled" ELSE "Unfilled"]
    /\ wpc' = "log_filled"
    /\ UNCHANGED <<sharedVars, uiVars, sleepVars, cycleVars, ohlc, volume, stop_loss,
                   action, order_id, notifications>>

\* lines 214-221
LogFilled ==
    /\ ProcessAlive /\ wpc = "log_filled"
    /\ AddLog("worker", IF is_filled THEN "order filled" ELSE "order is not yet filled")
    /\ wpc' = "after_order"
    /\ UNCHANGED <<flagVars, uiVars, sleepVars, cycleVars, pairVars, envVars>>

\* lines 445-447: what a buy adds to the cycle's allocation
Allocated(allocated, success, vol, price) ==
    IF success THEN allocated + vol * price ELSE allocated

\* bug: the trade is recorded whatever place_order returned
RecordedWhateverSuccess(trds, success, side, pair, price, sl) ==
    IF side = "buy"
    THEN Append(trds, [Type |-> "Buy", Symbol |-> pair, Price |-> price, StopLoss |-> sl])
    ELSE Append(trds, [Type |-> "Sell", Symbol |-> pair, Price |-> price, StopLoss |-> 0])

\* lines 445-446 and 455-456
Recorded(trds, success, side, pair, price, sl) ==
    IF ~success THEN trds
    ELSE IF side = "buy"
    THEN Append(trds, [Type |-> "Buy", Symbol |-> pair, Price |-> price, StopLoss |-> sl])
    ELSE Append(trds, [Type |-> "Sell", Symbol |-> pair, Price |-> price, StopLoss |-> 0])

\* bug: an order found not yet filled is polled again
AfterOrderPollAgain ==
    /\ ProcessAlive /\ wpc = "after_order"
    /\ IF order_id # 0 /\ ~is_filled
       THEN /\ wpc' = "query_orders"
            /\ UNCHANGED <<trades, total_allocated, idx, pairVars>>
       ELSE /\ trades' = Recorded(trades, is_filled, action, watchlist[idx], ohlc.close,
                                  stop_loss)
            /\ IF action = "buy"
               THEN /\ total_allocated' =
                        Allocated(total_allocated, is_filled, volume, ohlc.close)
                    /\ wpc' = "sell_check"
                    /\ UNCHANGED <<idx, pairVars>>
               ELSE /\ NextPair
                    /\ UNCHANGED total_allocated
    /\ UNCHANGED <<sharedVars, uiVars, sleepVars, loopVars, gabVars, acctVars, logged,
                   envVars>>

\* place_order has returned (success = is_filled): lines 444-447 and 454-456
AfterOrder ==
    /\ ProcessAlive /\ wpc = "after_order"
    /\ trades' = Recorded(trades, is_filled, action, watchlist[idx], ohlc.close, stop_loss)
    /\ IF action = "buy"
       THEN /\ total_allocated' = Allocated(total_allocated, is_filled, volume, ohlc.close)
            /\ wpc' = "sell_check"
            /\ UNCHANGED <<idx, pairVars>>
       ELSE /\ NextPair
            /\ UNCHANGED total_allocated
    /\ UNCHANGED <<sharedVars, uiVars, sleepVars, loopVars, gabVars, acctVars, logged,
                   envVars>>

----------------------------------------------------------------------------
(* trading_loop, lines 458-472: the end of a cycle *)

\* lines 458-467 (one line per trade) or 468-469, then line 472
Summary ==
    /\ ProcessAlive /\ wpc = "summary"
    /\ IF trades = <<>>
       THEN /\ AddLog("worker", "------")
            /\ wpc' = "log_no_trades"
            /\ UNCHANGED <<sleepVars, loopVars, acctVars, iterVars>>
       ELSE /\ AddLog("worker", trades[logged + 1].Type)
            /\ IF logged + 1 < Len(trades)
               THEN /\ logged' = logged + 1
                    /\ UNCHANGED <<wpc, sleepVars, loopVars, acctVars, total_allocated,
                                   trades, idx>>
               ELSE EndIteration
    /\ UNCHANGED <<flagVars, uiVars, gabVars, pairVars, envVars>>

\* lines 470 and 472
LogNoTrades ==
    /\ ProcessAlive /\ wpc = "log_no_trades"
    /\ AddLog("worker", "No trades executed in this iteration.")
    /\ EndIteration
    /\ UNCHANGED <<flagVars, uiVars, gabVars, pairVars, envVars>>

----------------------------------------------------------------------------
(* handle_exceptions, lines 262-273, around the whole while loop (line 365) *)

\* where trading_loop continues after the with block has swallowed the exception:
\* the with statement of line 365 is left, and trading_loop returns
AfterCooldown == "done"

\* line 267
HandleExceptions ==
    /\ ProcessAlive /\ wpc = "handle_exceptions"
    /\ AddLog("worker", "Warning: Unexpected error")
    /\ wpc' = "notify_unexpected"
    /\ UNCHANGED <<flagVars, uiVars, sleepVars, cycleVars, pairVars, envVars>>

\* lines 269-273
NotifyUnexpected ==
    /\ ProcessAlive /\ wpc = "notify_unexpected"
    /\ notifications' = notifications + 1
    /\ Sleep(CooldownSleep, AfterCooldown)
    /\ UNCHANGED <<sharedVars, uiVars, cycleVars, pairVars, orders>>

----------------------------------------------------------------------------
Main == MainStart \/ MainSetExit \/ MainJoin \/ MainUiRaised

Ui == UiDrawTop \/ UiRaise \/ UiDrawLogs \/ UiKey \/ UiQuit

Worker ==
    \/ SleepWithExit \/ WhileNotExit \/ Terminate \/ ReadWatchlist \/ LogEmptyWatchlist
    \/ GetAccountBalance \/ GetTradeBalance \/ LogBuyingPower \/ LogHoldings \/ Publish
    \/ CheckBuyingPower \/ ForPair \/ LogChecking \/ GetOhlcData \/ LogSkipping
    \/ LogInvalidPrice \/ Evaluate \/ LogInvalidStop \/ GetMinOrderSize \/ LogBelowMin
    \/ SellCheck \/ AddOrder \/ NotifyPlaced \/ NotifyFailed \/ QueryOrders \/ LogFilled
    \/ AfterOrder \/ Summary \/ LogNoTrades \/ HandleExceptions \/ NotifyUnexpected

Next == Main \/ Ui \/ Worker

Spec == Init /\ [][Next]_vars

\* The worker thread and the main thread are scheduled again and again, and every
\* call they wait for returns: a step of theirs that stays possible is taken.
\* Nothing is assumed of ui_loop, whose steps depend on the keys pressed.
LiveSpec == Spec /\ WF_vars(Worker) /\ WF_vars(Main)

----------------------------------------------------------------------------
(* Vocabulary of the properties *)

\* the steps that issue a call to the exchange (lines 147, 149, 180, 199, 236, 402)
NetworkPcs == {"get_account_balance", "get_trade_balance", "get_ohlc_data",
               "get_min_order_size", "add_order", "query_orders"}

NetworkCall == wpc \in NetworkPcs /\ wpc' # wpc

\* the orders submitted in the current iteration of the while loop
CycleOrders == { i \in DOMAIN orders : i >= first_order }

\* the exchange took the order: it came back with a txid
Accepted(o) == o.status # "Failed"

\* volume * price over the accepted buy orders among orders[from .. Len(orders)]
RECURSIVE BuyNotional(_, _)
BuyNotional(ords, from) ==
    IF from > Len(ords) THEN 0
    ELSE (IF ords[from].side = "buy" /\ Accepted(ords[from])
          THEN ords[from].volume * ords[from].price ELSE 0)
         + BuyNotional(ords, from + 1)

----------------------------------------------------------------------------
(* C1: in one cycle, volume * price summed over the buy orders the exchange
   accepted, filled or not, never exceeds 0.20 * the buying power of the cycle.
   Refuted: line 447 counts a buy only when place_order reports it filled. *)
C1_CycleNotionalWithinCap ==
    5 * BuyNotional(orders, first_order) <= buying_power

(* C2: for one pair in one cycle, a buy order and a sell order are never both
   submitted.  Refuted: a price at or below the buy threshold is at or below the
   stop-loss threshold too (lines 422-423), and line 452 runs after a buy. *)
C2_BuyAndSellExclusive ==
    \A i, j \in CycleOrders :
        orders[i].pair = orders[j].pair => orders[i].side = orders[j].side

(* C3: every order submitted, buy or sell, has a volume of at least the
   exchange's minimum order size for its pair.  Refuted: the sell branch (lines
   452-454) never looks at the minimum, and the buy branch takes 0.0 for it when
   the lookup fails (line 187). *)
C3_VolumeAtLeastMinimum ==
    \A i \in DOMAIN orders : orders[i].volume >= MinOrderSize(orders[i].pair)

(* C4: after an uncaught error and the cooldown sleep, unless shutdown has been
   requested, the cycle loop resumes.  Refuted: handle_exceptions wraps the while
   loop (line 365), so trading_loop returns after the cooldown. *)
C4_LoopResumesAfterCooldown ==
    [][(/\ wpc = "sleep"
        /\ total_seconds = CooldownSleep
        /\ wpc' # "sleep"
        /\ ~exit_flag) => wpc' = "loop"]_vars

(* C5: an error raised while one pair is processed never aborts the cycle: the
   worker does not leave the for loop for the error boundary while pairs of the
   watchlist remain, unless shutdown is requested.  Refuted: lines 416-419 and
   450-451 are outside the try of lines 400-409. *)
C5_PairErrorIsolated ==
    wpc = "handle_exceptions" => (idx >= Len(watchlist) \/ exit_flag)

(* C6: once exit_flag is set the worker issues no new call to the exchange.
   Refuted: the flag is read at line 394 and inside sleep_with_exit only; the
   calls that follow a sleep are issued whatever the flag says. *)
C6_NoNetworkCallAfterShutdown ==
    [][exit_flag => ~NetworkCall]_vars

(* C7: main returns, and the process exits, only after trading_loop has
   returned, whichever way ui_loop ends.  Refuted: an exception of ui_loop skips
   lines 486-487, and the worker is a daemon thread. *)
C7_ExitOnlyAfterWorkerReturned ==
    mpc = "exited" => wpc = "done"

(* C8: order status is monotonic: a Submitted order is queried once and becomes
   Filled or Unfilled; an order that is Filled, Unfilled or Failed never changes
   status and is never queried again. *)
C8_StatusMonotonic ==
    /\ [](\A i \in DOMAIN orders :
            /\ orders[i].status \in {"Submitted", "Filled", "Unfilled", "Failed"}
            /\ orders[i].status \in {"Submitted", "Failed"} => orders[i].queries = 0
            /\ orders[i].status \in {"Filled", "Unfilled"} => orders[i].queries = 1)
    /\ [][\A i \in DOMAIN orders :
            orders[i].status # "Submitted" =>
                /\ orders'[i].status = orders[i].status
                /\ orders'[i].queries = orders[i].queries]_vars

\* an order stayed Unfilled, polled once, while the worker went on to submit another
C8_Witness ==
    \E i \in DOMAIN orders :
        /\ orders[i].status = "Unfilled"
        /\ orders[i].queries = 1
        /\ i < Len(orders)

(* C9: an order whose placement reports an error, returns no txid or raises is
   Failed at once: it is never queried, place_order's caller adds no trade and no
   allocation for it, and the worker goes on with the sell check or the next pair. *)
C9_FailedOrderLeavesNoTrace ==
    /\ [](\A i \in DOMAIN orders : orders[i].status = "Failed" => orders[i].queries = 0)
    /\ [][(/\ wpc = "after_order"
           /\ orders[Len(orders)].status = "Failed"
           /\ wpc' # wpc)
          => /\ trades' = trades
             /\ total_allocated' = total_allocated
             /\ orders' = orders
             /\ wpc' \in {"sell_check", "for_pair"}]_vars

\* a buy failed at the exchange, and the worker is at the sell check of that pair
\* with no trade recorded and nothing allocated
C9_Witness ==
    /\ wpc = "sell_check"
    /\ Len(orders) >= first_order
    /\ orders[Len(orders)].status = "Failed"
    /\ orders[Len(orders)].side = "buy"
    /\ trades = <<>>
    /\ total_allocated = 0

(* C10: every order submission is followed by exactly one notification, on
   failure as on success.  Refuted: lines 200-203 and 222-224 return without
   send_email_notification. *)
C10_OneNotificationPerSubmission ==
    wpc = "after_order" => orders[Len(orders)].notified = 1

(* C11: the trading worker is the only writer of the shared log buffer: every
   line of logs was appended by the worker thread.  Refuted: ui_loop calls
   add_log itself when q is pressed (line 355). *)
C11_WorkerSoleWriter ==
    \A i \in DOMAIN logs : logs[i].by = "worker"

(* C12: under every interleaving, the copy of the log buffer the renderer takes
   is a contiguous run of the buffer in the order of the appends; the buffer only
   grows at its end, one whole line at a time, and its lines never change. *)
C12_LogCopyContiguous ==
    /\ [](/\ \A i \in DOMAIN logs : logs[i].at = i
          /\ \A k \in DOMAIN displayable_logs :
                /\ displayable_logs[k].at \in DOMAIN logs
                /\ displayable_logs[k] = logs[displayable_logs[k].at]
                /\ k > 1 => displayable_logs[k].at = displayable_logs[k - 1].at + 1)
    /\ [][\/ logs' = logs
          \/ /\ Len(logs') = Len(logs) + 1
             /\ SubSeq(logs', 1, Len(logs)) = logs]_vars

\* the renderer holds a copy of several lines, and the worker has appended to
\* the buffer since the copy was taken
C12_Witness ==
    /\ upc = "getch"
    /\ Len(displayable_logs) >= 2
    /\ displayable_logs[Len(displayable_logs)].at < Len(logs)

\* the positions of trading_loop inside the body of the for loop (lines 397-456)
PairPcs == {"log_checking", "get_ohlc_data", "log_skipping", "log_invalid_price",
            "evaluate", "log_invalid_stop", "get_min_order_size", "log_below_min",
            "sell_check", "add_order", "notify_placed", "notify_failed",
            "query_orders", "log_filled", "after_order"}

\* the worker is processing a pair, asleep in one of its pacing delays or not
InPairEvaluation ==
    wpc \in PairPcs \/ (wpc = "sleep" /\ sleep_ret \in PairPcs)

(* C13: in a cycle whose buying power is <= 0 no pair is evaluated and no order
   is submitted; from the test of the buying power the worker goes into the
   inter-cycle sleep, which shutdown can cut short, and from there to the head of
   the while loop. *)
C13_NoBuyingPowerSkipsCycle ==
    /\ [](InPairEvaluation => buying_power > 0)
    /\ [][Len(orders') > Len(orders) => buying_power > 0]_vars
    /\ [][(wpc = "check_buying_power" /\ buying_power <= 0 /\ wpc' # wpc)
          => /\ wpc' = "sleep"
             /\ total_seconds' = CycleSleep
             /\ sleep_ret' = "loop"
             /\ orders' = orders]_vars
    /\ [][(wpc = "sleep" /\ sleep_ret = "loop" /\ wpc' # "sleep")
          => /\ wpc' = "loop"
             /\ elapsed >= total_seconds \/ exit_flag]_vars

\* the first cycle found no buying power: four log lines, the publication of
\* funds 0, no order, and the inter-cycle sleep has run its full length
C13_Witness ==
    /\ wpc = "sleep" /\ sleep_ret = "loop"
    /\ total_seconds = CycleSleep /\ elapsed >= total_seconds
    /\ ~exit_flag
    /\ Len(logs) = 4
    /\ latest_funds = 0 /\ latest_holdings # <<>>
    /\ orders = <<>>

\* the step submits an order of the given side
Submits(side) ==
    /\ Len(orders') = Len(orders) + 1
    /\ orders'[Len(orders')].side = side

(* C14: a buy order is submitted for a pair only if, on the values read for that
   pair, rsi < 30 and current_price <= previous_close * (1 - 0.15 - atr /
   previous_close) and short_sma > long_sma all hold. *)
C14_BuyOnlyOnSignal ==
    [][Submits("buy")
       => /\ ohlc.rsi < 30
          /\ 100 * ohlc.close <= 85 * ohlc.prev - 100 * ohlc.atr
          /\ ohlc.short_sma > ohlc.long_sma
          /\ orders'[Len(orders')].pair = watchlist[idx]]_vars

\* a buy order has just been submitted for the pair under evaluation
C14_Witness ==
    /\ wpc \in {"notify_placed", "notify_failed", "after_order"}
    /\ action = "buy"
    /\ Len(orders) >= first_order
    /\ orders[Len(orders)].side = "buy"
    /\ orders[Len(orders)].pair = watchlist[idx]

(* C15: for every pair evaluated in a cycle whose asset has a tradable volume
   > 0, a sell order for that volume is submitted whenever rsi > 70 or the price
   is at or below the stop-loss threshold or at or above the take-profit
   threshold, whatever the buy test did.  Refuted: the two continue statements of
   the buy branch (lines 436 and 443) skip the sell test of lines 450-454. *)
C15_SellOnAnyTrigger ==
    [][(/\ wpc \in PairPcs
        /\ idx' = idx + 1
        /\ ohlc # NoOhlc
        /\ TradableVol(balance_tradable, watchlist[idx]) > 0
        /\ \/ ohlc.rsi > 70
           \/ 100 * ohlc.close <= 93 * ohlc.prev - 100 * ohlc.atr
           \/ 100 * ohlc.close >= 125 * ohlc.prev + 100 * ohlc.atr)
       => \E i \in CycleOrders :
             /\ orders[i].pair = watchlist[idx]
             /\ orders[i].side = "sell"
             /\ orders[i].volume = TradableVol(balance_tradable, watchlist[idx])]_vars

(* C16: in a cycle that iterates over the watchlist, funds and holdings are
   published at the end of the cycle, after the last pair has been processed.
   Refuted: lines 381-383 publish before the for loop of line 393 starts, and
   nothing is published after it. *)
C16_PublishAfterLastPair ==
    [][(wpc = "publish" /\ wpc' # wpc /\ watchlist # <<>>)
       => idx > Len(watchlist)]_vars

(* C17: the fill status of an accepted order is polled only after the settle
   delay has fully elapsed since its submission, whatever the state of
   exit_flag.  Refuted: sleep_with_exit(2.5) at line 235 returns at once when
   exit_flag is set, and line 236 queries the order all the same. *)
C17_PollAfterSettleDelay ==
    [][(wpc = "sleep" /\ sleep_ret = "query_orders" /\ wpc' = "query_orders")
       => elapsed >= PacingSleep]_vars

(* C18: a worker asleep in sleep_with_exit leaves the sleep at its next test of
   the loop condition once exit_flag is set, at most one check interval later;
   with the flag unset it leaves only when the requested duration has elapsed,
   and never sleeps more than one check interval beyond it. *)
C18_SleepInterruptible ==
    /\ [][(wpc = "sleep" /\ exit_flag /\ (wpc' # wpc \/ elapsed' # elapsed))
          => wpc' = sleep_ret /\ wpc' # "sleep"]_vars
    /\ [][(wpc = "sleep" /\ ~exit_flag /\ wpc' # "sleep")
          => elapsed >= total_seconds]_vars
    /\ [](wpc = "sleep" => elapsed < total_seconds + CheckInterval)

\* the flag was set while the worker was part of the way through the
\* inter-cycle sleep
C18_Witness ==
    /\ wpc = "sleep" /\ exit_flag
    /\ total_seconds = CycleSleep
    /\ 0 < elapsed /\ elapsed < total_seconds

(* C19: order submissions are strictly sequential: at most one order is
   Submitted at any moment, and an order is submitted only when every earlier
   order is Filled, Unfilled or Failed, under every interleaving with ui_loop. *)
C19_SubmissionsSequential ==
    /\ [](Cardinality({ i \in DOMAIN orders : orders[i].status = "Submitted" }) <= 1)
    /\ [][Len(orders') > Len(orders)
          => \A i \in DOMAIN orders : orders[i].status # "Submitted"]_vars

\* a second order is with the exchange, the first one has its final status, and
\* ui_loop is redrawing
C19_Witness ==
    /\ Len(orders) = 2
    /\ orders[2].status = "Submitted"
    /\ orders[1].status \in {"Filled", "Unfilled"}
    /\ upc = "draw_logs"

(* C20: the (funds, holdings) pair ui_loop reads in one redraw was written by one
   publication of the worker: the two globals only change together, in the one
   step of the worker that holds dashboard_data_lock, and ui_loop copies both in
   one step under the same lock. *)
C20_SnapshotNotTorn ==
    /\ [][(latest_funds' # latest_funds \/ latest_holdings' # latest_holdings)
          => /\ wpc = "publish"
             /\ latest_funds' = buying_power
             /\ latest_holdings' = formatted_holdings]_vars
    /\ [][(upc = "draw_top" /\ upc' # upc)
          => /\ funds' = latest_funds
             /\ holdings_list' = latest_holdings]_vars

\* ui_loop is drawing the pair of the first publication (funds 0) while the
\* worker has already published the pair of the next cycle
C20_Witness ==
    /\ upc = "draw_logs"
    /\ funds = 0 /\ holdings_list # <<>>
    /\ latest_funds = 2000

\* the positions of trading_loop whose step appends a line to logs
LoggingPcs == {"terminate", "read_watchlist", "log_empty", "log_buying_power",
               "log_holdings", "log_checking", "log_skipping", "log_invalid_price",
               "log_invalid_stop", "log_below_min", "log_filled", "summary",
               "log_no_trades", "handle_exceptions"}

\* the run has used up the log lines or the orders of the model, and the worker
\* stands before a step that needs one more
AtBound ==
    \/ /\ Len(logs) >= MaxLogs
       /\ \/ wpc \in LoggingPcs
          \/ wpc = "sleep" /\ sleep_ret \in LoggingPcs
          \/ wpc = "check_buying_power" /\ NoBuyingPower(buying_power)
    \/ wpc = "add_order" /\ Len(orders) >= MaxOrders

(* C21: exit_flag is never reset once set, and once it is set trading_loop
   eventually returns and the join of main completes, from whatever point of the
   cycle the worker is in, every call in flight returning. *)
C21_ShutdownTerminates ==
    /\ [][exit_flag => exit_flag']_vars
    /\ exit_flag ~> ((wpc = "done" /\ mpc = "exited") \/ AtBound)

\* the flag was set while the worker was inside a cycle with an order placed, and
\* the worker has returned and main has joined it, with log lines to spare
C21_Witness ==
    /\ exit_flag
    /\ wpc = "done" /\ mpc = "exited"
    /\ Len(logs) < MaxLogs
    /\ orders # <<>>

====
